---- MODULE Spec2Model ----
(***************************************************************************)
(* Route optimization orchestrator of the traffic service:                 *)
(* RouteOptimizationService.optimizeRoute / updateRoute, the store they    *)
(* write (route_optimization_requests, optimized_routes, route_updates),   *)
(* the un-awaited Kafka publications and the synchronous room pushes of    *)
(* RouteOptimizationGateway.                                               *)
(*                                                                         *)
(* One action is one resumption of an async handler: the awaited call      *)
(* returns (or rejects) and the handler runs synchronously up to its next  *)
(* await.  Every awaited collaborator call (store, routing provider) and   *)
(* every synchronous room push may fail; the outcome is an input of the    *)
(* action.  A run injects at most MaxFaults failures.  Calls start in      *)
(* index order (the indices only name the calls).                          *)
(*                                                                         *)
(* Five specifications share the variables:                                *)
(*   Spec / FairSpec  the orchestrator, its store and its fan-out          *)
(*   ReadSpec         the orchestrator with getRouteStatus,                *)
(*                    getRouteTracking and getRouteHistory served between  *)
(*                    its steps                                            *)
(*   CalcSpec         GoogleMapsService.optimizeRoute (fallback and        *)
(*                    provider mode) and calculateOptimizationMetrics      *)
(*                    applied to every stop list of up to MaxStops stops   *)
(*   GwSpec           RouteOptimizationGateway: connect, subscribe,        *)
(*                    unsubscribe, disconnect                              *)
(*   LiveSpec         the first submission running while two users'       *)
(*                    sockets connect, subscribe, unsubscribe, disconnect  *)
(***************************************************************************)
EXTENDS Integers, Sequences, FiniteSets, TLC

\* ------------------------------------------------------------------ bounds
NumSubmits == 2        \* number of optimizeRoute calls that may run concurrently
MaxUpdates == 1        \* number of updateRoute calls
MaxFaults  == 3        \* number of collaborator failures injected in one run

MaxStops   == 4        \* longest stop list given to the sequencer
MaxMsgs    == 2        \* messages one connection sends after connecting

Procs    == 1..NumSubmits
UpdOps   == 1..MaxUpdates
Vehicles == {"v1", "v2"}
Users    == {"u1"}

\* uuidv4() of optimizeRoute call p, and the store-generated id of the route it inserts
ReqId(p)   == <<"req", p>>
RouteId(p) == <<"route", p>>
ReqIds     == {ReqId(p) : p \in Procs}
RouteIds   == {RouteId(p) : p \in Procs}
Keys       == ReqIds \cup RouteIds

Statuses == {"PENDING", "PROCESSING", "COMPLETED", "FAILED"}

\* sockets that connect to the gateway, and the request ids they name in messages
Conns  == {"c1", "c2"}
SubIds == {<<"req", 0>>, <<"req", 1>>}

\* what a handshake can carry in the cookie, in handshake.auth or in the
\* Authorization header: nothing, a token that fails jwt.verify (bad signature,
\* other issuer), a token of the issuer for a user, or a token of the issuer
\* whose payload has no userId
Tokens == {"none", "forged", "tok_u1", "tok_u2", "tok_anon"}

\* what a client can put into its handshake: the access_token pair of the cookie
\* header ("none": no such pair, "": a pair with an empty value), auth.token and
\* the Authorization header after 'Bearer '
Handshakes ==
  [cookie : {"none", "", "forged", "tok_u1"},
   auth : {"none", "forged", "tok_u2"},
   header : {"none", "tok_anon"}]

NoHandshake == [cookie |-> "none", auth |-> "none", header |-> "none"]

\* latitudes of the stops, in thousandths of a degree
Lats == {0, 2, 4, 5, 500}

\* metres per degree of latitude: R * pi / 180 with R = 6371000
MetersPerDegree == 111195

\* let shortestDistance = Infinity: larger than every distance between two stops
Infinity == 1000000000

\* minutes added per leg for stopping and loading
StopMinutes == 5

VARIABLES
  requests,   \* table route_optimization_requests: request id -> record
  routes,     \* table optimized_routes: set of records
  updates,    \* table route_updates: set of records
  hist,       \* per request id, the statuses persisted so far, in order
  sub,        \* per optimizeRoute call: position and locals
  upd,        \* per updateRoute call: position and locals
  inflight,   \* publishEvent calls started and not yet settled
  bus,        \* per key, the event types that reached the message bus, in order
  rejected,   \* publishEvent calls that rejected (logged by the catch in publishX)
  pushes,     \* per room key, the room pushes attempted, in order
  faults,     \* number of collaborator failures injected so far
  rd,         \* the read operation served last and what it answered
  conn,       \* per real-time connection: socket state, bound identity, rooms, frames
  publicKey,  \* the gateway's JWT_PUBLIC_KEY_PEM ("" when not configured)
  calc        \* the route sequencer and metrics calculator: input and results

\* the orchestrator, its store and its fan-out
orch == <<requests, routes, updates, hist, sub, upd, inflight, bus, rejected, pushes, faults>>

\* what no orchestrator step touches
\* the real-time gateway
gw == <<conn, publicKey>>

aux == <<rd, gw, calc>>

vars == <<orch, aux>>

\* ------------------------------------------------------------ store records
\* prisma.routeOptimizationRequest.create: status PROCESSING, completedAt NULL
NewRequest(p, veh, usr) ==
  [vehicleId |-> veh, userId |-> usr,
   stops |-> <<"stops", p>>, preferences |-> <<"preferences", p>>,
   status |-> "PROCESSING", completedAt |-> FALSE]

\* a status write that rewrites the row and loses what the request asked for
SetTerminalWipe(rec, st) ==
  [rec EXCEPT !.status = st, !.completedAt = TRUE, !.stops = <<"stops", 0>>]

\* a status write that forgets completedAt
SetTerminalNoTimestamp(rec, st) == [rec EXCEPT !.status = st]

\* a status write that sets completedAt and leaves the status as it was
SetTerminalKeepStatus(rec, st) == [rec EXCEPT !.completedAt = TRUE]

\* prisma.routeOptimizationRequest.update({status, completedAt: new Date()})
SetTerminal(rec, st) == [rec EXCEPT !.status = st, !.completedAt = TRUE]

\* the waypoint list the sequencer returned to submission p (0: none)
WaypointsOf(p) == <<"waypoints", p>>

\* a route insertion that files every route under the first submission's request
InsertRouteShared(p, veh) ==
  routes \cup {[id |-> RouteId(p), requestId |-> ReqId(1), vehicleId |-> veh,
                waypoints |-> WaypointsOf(p)]}

\* a route insertion that files the route under another vehicle
InsertRouteOtherVehicle(p, veh) ==
  routes \cup {[id |-> RouteId(p), requestId |-> ReqId(p),
                vehicleId |-> CHOOSE v \in Vehicles : v # veh,
                waypoints |-> WaypointsOf(p)]}

\* a route insertion that stores nothing
InsertRouteLost(p, veh) == routes

\* prisma.optimizedRoute.create({requestId, vehicleId, ...})
InsertRoute(p, veh) ==
  routes \cup {[id |-> RouteId(p), requestId |-> ReqId(p), vehicleId |-> veh,
                waypoints |-> WaypointsOf(p)]}

RoutesOf(rid) == {r \in routes : r.requestId = rid}

\* a lookup that matches on the route id alone
FindFirstIdOnly(rid, veh) == {r \in routes : r.id = rid}

\* prisma.optimizedRoute.findFirst({where: {id: routeId, vehicleId}})
FindFirst(rid, veh) == {r \in routes : r.id = rid /\ r.vehicleId = veh}

\* a route update that records no waypoints
NewRouteUpdateBlank(u) ==
  [id |-> u, routeId |-> upd[u].routeId, vehicleId |-> upd[u].vehicleId,
   newWaypoints |-> WaypointsOf(0)]

\* prisma.routeUpdate.create({routeId, vehicleId, updateReason,
\* newWaypoints: route.waypoints}), route being the row findFirst returned
NewRouteUpdate(u) ==
  [id |-> u, routeId |-> upd[u].routeId, vehicleId |-> upd[u].vehicleId,
   newWaypoints |-> upd[u].waypoints]

\* a create that rejects after its row was written
RejectedCreateStored(p, veh, usr) == (ReqId(p) :> NewRequest(p, veh, usr)) @@ requests

\* prisma.routeOptimizationRequest.create rejects: the store has no new row
RejectedCreate(p, veh, usr) == requests

\* prisma.routeOptimizationRequest.update({where: {id}}): resolves only if a row
\* with the id exists
UpdateFinds(k) == k \in DOMAIN requests

\* nothing has been returned
NoResult == [requestId |-> <<"req", 0>>, waypoints |-> WaypointsOf(0)]

\* a result that names the request and carries no route
ReturnedResultEmpty(p) == [requestId |-> ReqId(p), waypoints |-> WaypointsOf(0)]

\* return {requestId, optimizedRoute: {..., waypoints: optimizedRoute.waypoints},
\* optimizationMetrics}: the sequencer's result that was also stored
ReturnedResult(p) == [requestId |-> ReqId(p), waypoints |-> WaypointsOf(p)]

\* --------------------------------------------------------------- fan-out
\* this.publishX(...).catch(...): the publishEvent call is started, not awaited
StartPublish(type, key) == inflight' = inflight \cup {<<type, key>>}

\* a handler that awaits the publications it started for the key
AwaitedPublicationsAll(key) == {e \in inflight : e[2] = key}

\* the publications the handler working on the key is suspended on:
\* this.publishX(...).catch(...) is called without await
AwaitedPublications(key) == {}

\* a broadcast that reaches no room and leaves no trace
DoPushNothing(name, key, ok) == pushes' = pushes /\ conn' = conn

\* a room emit that reaches every open socket, whatever rooms it joined
EmitToAll(room, frame) ==
  [c \in Conns |-> IF conn[c].state = "open"
                   THEN [conn[c] EXCEPT !.frames = Append(@, frame)]
                   ELSE conn[c]]

\* this.server.to(room).emit(name, {requestId, ...}): the frame goes to the
\* sockets that are in the room now
Emit(room, frame) ==
  [c \in Conns |-> IF room \in conn[c].rooms
                   THEN [conn[c] EXCEPT !.frames = Append(@, frame)]
                   ELSE conn[c]]

\* this.routeOptimizationGateway.broadcastX(key, ...): server.to(room).emit(...)
DoPush(name, key, ok) ==
  /\ pushes' = [pushes EXCEPT ![key] = Append(@, [name |-> name, delivered |-> ok])]
  /\ conn' = IF ok THEN Emit(<<"route", key>>, [name |-> name, requestId |-> key])
             ELSE conn

\* a rejected publication that is thrown into the handler instead of being logged
OnPublishRejectedEscalated(s) ==
  IF s.pc = "done" THEN [s EXCEPT !.raised = "publish", !.returned = FALSE]
  ELSE [s EXCEPT !.pc = "failing", !.err = "publish"]

\* catch (error) { this.logger.warn(...) } inside publishX: the caller is untouched
OnPublishRejected(s) == s

\* -------------------------------------------------------------------- Init
OrchInit ==
  /\ requests = <<>>
  /\ routes = {}
  /\ updates = {}
  /\ hist = [k \in ReqIds |-> <<>>]
  /\ sub = [p \in Procs |-> [pc |-> "idle", vehicleId |-> "none", userId |-> "none",
                             err |-> "none", failWrite |-> "none",
                             raised |-> "none", returned |-> FALSE,
                             result |-> NoResult]]
  /\ upd = [u \in UpdOps |-> [pc |-> "idle", routeId |-> <<"route", 0>>, vehicleId |-> "none",
                              waypoints |-> WaypointsOf(0),
                              raised |-> "none", returned |-> FALSE]]
  /\ inflight = {}
  /\ bus = [k \in Keys |-> <<>>]
  /\ rejected = {}
  /\ faults = 0
  /\ pushes = [k \in Keys |-> <<>>]

NoRead == [op |-> "none", arg |-> "none", raised |-> "none", found |-> {}]

\* a socket the gateway has not been told about yet
FreshSocket ==
  [state |-> "fresh", handshake |-> NoHandshake, token |-> "none", checked |-> FALSE,
   userId |-> "undefined", registered |-> FALSE, rooms |-> {}, msgs |-> <<>>, frames |-> <<>>]

NoConns == [c \in Conns |-> FreshSocket]

\* the sequencer is not running
NoCalc == [pc |-> "off"]

Init == OrchInit /\ rd = NoRead /\ conn = NoConns /\ publicKey = "pem" /\ calc = NoCalc

\* ----------------------------------------------------------- failure inputs
\* n further collaborator failures happen in this step
Inject(n) == faults + n <= MaxFaults /\ faults' = faults + n

Cost(ok) == IF ok THEN 0 ELSE 1

\* ------------------------------------------------------------ optimizeRoute
\* entry: requestId = uuidv4(); the create of the request is awaited and returns:
\* publish requested, push requested, call the sequencer
Submit(p, veh, usr, ok, pushOk) ==
  /\ sub[p].pc = "idle"
  /\ \A q \in Procs : q < p => sub[q].pc # "idle"
  /\ IF ok
     THEN /\ Inject(Cost(pushOk))
          /\ requests' = (ReqId(p) :> NewRequest(p, veh, usr)) @@ requests
          /\ hist' = [hist EXCEPT ![ReqId(p)] = Append(@, "PROCESSING")]
          /\ StartPublish("ROUTE_OPTIMIZATION_REQUESTED", ReqId(p))
          /\ DoPush("route_optimization_requested", ReqId(p), pushOk)
          /\ sub' = [sub EXCEPT ![p] =
                       IF pushOk
                       THEN [@ EXCEPT !.pc = "sequencing", !.vehicleId = veh, !.userId = usr]
                       ELSE [@ EXCEPT !.pc = "failing", !.vehicleId = veh, !.userId = usr,
                                      !.err = "pushRequested"]]
     ELSE /\ pushOk
          /\ Inject(1)
          /\ sub' = [sub EXCEPT ![p] = [@ EXCEPT !.pc = "failing", !.vehicleId = veh,
                                                 !.userId = usr, !.err = "create"]]
          /\ requests' = RejectedCreate(p, veh, usr)
          /\ UNCHANGED <<hist, inflight, pushes, conn>>
  /\ UNCHANGED <<routes, updates, upd, bus, rejected>>
  /\ UNCHANGED <<rd, publicKey, calc>>

\* googleMapsService.optimizeRoute returns; metrics are computed; the route insert is awaited
SequenceDone(p, ok) ==
  /\ sub[p].pc = "sequencing"
  /\ AwaitedPublications(ReqId(p)) = {}
  /\ Inject(Cost(ok))
  /\ sub' = [sub EXCEPT ![p] =
               IF ok THEN [@ EXCEPT !.pc = "inserting"]
               ELSE [@ EXCEPT !.pc = "failing", !.err = "provider"]]
  /\ UNCHANGED <<requests, routes, updates, hist, upd, inflight, bus, rejected, pushes>>
  /\ UNCHANGED aux

\* prisma.optimizedRoute.create returns; the COMPLETED update is awaited
InsertDone(p, ok) ==
  /\ sub[p].pc = "inserting"
  /\ AwaitedPublications(ReqId(p)) = {}
  /\ Inject(Cost(ok))
  /\ IF ok
     THEN /\ routes' = InsertRoute(p, sub[p].vehicleId)
          /\ sub' = [sub EXCEPT ![p] = [@ EXCEPT !.pc = "completing"]]
     ELSE /\ sub' = [sub EXCEPT ![p] = [@ EXCEPT !.pc = "failing", !.err = "insert"]]
          /\ UNCHANGED routes
  /\ UNCHANGED <<requests, updates, hist, upd, inflight, bus, rejected, pushes>>
  /\ UNCHANGED aux

\* the COMPLETED update returns: publish optimized, push optimized, return the result
CompleteDone(p, ok, pushOk) ==
  /\ sub[p].pc = "completing"
  /\ AwaitedPublications(ReqId(p)) = {}
  /\ IF ok
     THEN /\ Inject(Cost(pushOk))
          /\ requests' = [requests EXCEPT ![ReqId(p)] = SetTerminal(@, "COMPLETED")]
          /\ hist' = [hist EXCEPT ![ReqId(p)] = Append(@, "COMPLETED")]
          /\ StartPublish("ROUTE_OPTIMIZED", ReqId(p))
          /\ DoPush("route_optimized", ReqId(p), pushOk)
          /\ sub' = [sub EXCEPT ![p] =
                       IF pushOk THEN [@ EXCEPT !.pc = "done", !.returned = TRUE,
                                                !.result = ReturnedResult(p)]
                       ELSE [@ EXCEPT !.pc = "failing", !.err = "pushOptimized"]]
     ELSE /\ pushOk
          /\ Inject(1)
          /\ sub' = [sub EXCEPT ![p] = [@ EXCEPT !.pc = "failing", !.err = "update"]]
          /\ UNCHANGED <<requests, hist, inflight, pushes, conn>>
  /\ UNCHANGED <<routes, updates, upd, bus, rejected>>
  /\ UNCHANGED <<rd, publicKey, calc>>

\* catch block: the FAILED update returns; push failed; throw error.
\* The update of a record that was never created rejects (record not found).
FailDone(p, ok, pushOk) ==
  /\ sub[p].pc = "failing"
  /\ AwaitedPublications(ReqId(p)) = {}
  /\ ~UpdateFinds(ReqId(p)) => ~ok
  /\ IF ok
     THEN /\ Inject(Cost(pushOk))
          /\ requests' = [requests EXCEPT ![ReqId(p)] = SetTerminal(@, "FAILED")]
          /\ hist' = [hist EXCEPT ![ReqId(p)] = Append(@, "FAILED")]
          /\ DoPush("route_optimization_failed", ReqId(p), pushOk)
          /\ sub' = [sub EXCEPT ![p] =
                       [@ EXCEPT !.pc = "done", !.failWrite = "ok",
                                 !.raised = IF pushOk THEN sub[p].err ELSE "pushFailed"]]
     ELSE /\ pushOk
          /\ Inject(IF ReqId(p) \in DOMAIN requests THEN 1 ELSE 0)
          /\ sub' = [sub EXCEPT ![p] = [@ EXCEPT !.pc = "done", !.failWrite = "rejected",
                                                 !.raised = "failedWrite"]]
          /\ UNCHANGED <<requests, hist, pushes, conn>>
  /\ UNCHANGED <<routes, updates, upd, inflight, bus, rejected>>
  /\ UNCHANGED <<rd, publicKey, calc>>

\* -------------------------------------------------------------- updateRoute
\* entry: prisma.optimizedRoute.findFirst({id: routeId, vehicleId}) is awaited and
\* returns: NotFound, or the routeUpdate create is awaited. A rejected findFirst
\* is outside the try block and propagates to the caller.
UpdateRoute(u, rid, veh, ok) ==
  /\ upd[u].pc = "idle"
  /\ \A v \in UpdOps : v < u => upd[v].pc # "idle"
  /\ Inject(Cost(ok))
  /\ upd' = [upd EXCEPT ![u] =
               IF ~ok
               THEN [@ EXCEPT !.pc = "done", !.routeId = rid, !.vehicleId = veh,
                              !.raised = "find"]
               ELSE IF FindFirst(rid, veh) # {}
               THEN [@ EXCEPT !.pc = "recording", !.routeId = rid, !.vehicleId = veh,
                              !.waypoints = (CHOOSE r \in FindFirst(rid, veh) : TRUE).waypoints]
               ELSE [@ EXCEPT !.pc = "done", !.routeId = rid, !.vehicleId = veh,
                              !.raised = "NotFound"]]
  /\ UNCHANGED <<requests, routes, updates, hist, sub, inflight, bus, rejected, pushes>>
  /\ UNCHANGED aux

\* the routeUpdate create returns: publish update-requested, push, return;
\* the catch logs and rethrows
RecordDone(u, ok, pushOk) ==
  /\ upd[u].pc = "recording"
  /\ AwaitedPublications(upd[u].routeId) = {}
  /\ IF ok
     THEN /\ Inject(Cost(pushOk))
          /\ updates' = updates \cup {NewRouteUpdate(u)}
          /\ StartPublish("ROUTE_UPDATE_REQUESTED", upd[u].routeId)
          /\ DoPush("route_update_requested", upd[u].routeId, pushOk)
          /\ upd' = [upd EXCEPT ![u] =
                       IF pushOk THEN [@ EXCEPT !.pc = "done", !.returned = TRUE]
                       ELSE [@ EXCEPT !.pc = "done", !.raised = "pushUpdate"]]
     ELSE /\ pushOk
          /\ Inject(1)
          /\ upd' = [upd EXCEPT ![u] = [@ EXCEPT !.pc = "done", !.raised = "create"]]
          /\ UNCHANGED <<updates, inflight, pushes, conn>>
  /\ UNCHANGED <<requests, routes, hist, sub, bus, rejected>>
  /\ UNCHANGED <<rd, publicKey, calc>>

\* ---------------------------------------------------------------- message bus
\* kafkaService.publishEvent resolves: the event is on the topic
PublishOk(e) ==
  /\ e \in inflight
  /\ inflight' = inflight \ {e}
  /\ bus' = [bus EXCEPT ![e[2]] = Append(@, e[1])]
  /\ UNCHANGED <<requests, routes, updates, hist, sub, upd, rejected, pushes, faults>>
  /\ UNCHANGED aux

\* kafkaService.publishEvent rejects: the catch in publishX logs a warning
PublishFail(e) ==
  /\ e \in inflight
  /\ Inject(1)
  /\ inflight' = inflight \ {e}
  /\ rejected' = rejected \cup {e}
  /\ sub' = [p \in Procs |-> IF e[2] = ReqId(p) THEN OnPublishRejected(sub[p]) ELSE sub[p]]
  /\ UNCHANGED <<requests, routes, updates, hist, upd, bus, pushes>>
  /\ UNCHANGED aux

\* -------------------------------------------------------------------- Next
SubmitStep(p) ==
  \/ \E ok \in BOOLEAN : SequenceDone(p, ok)
  \/ \E ok \in BOOLEAN : InsertDone(p, ok)
  \/ \E ok \in BOOLEAN, pushOk \in BOOLEAN : CompleteDone(p, ok, pushOk)
  \/ \E ok \in BOOLEAN, pushOk \in BOOLEAN : FailDone(p, ok, pushOk)

Next ==
  \/ \E p \in Procs, veh \in Vehicles, usr \in Users, ok \in BOOLEAN, pushOk \in BOOLEAN :
        Submit(p, veh, usr, ok, pushOk)
  \/ \E p \in Procs : SubmitStep(p)
  \/ \E u \in UpdOps, rid \in RouteIds, veh \in Vehicles, ok \in BOOLEAN :
        UpdateRoute(u, rid, veh, ok)
  \/ \E u \in UpdOps, ok \in BOOLEAN, pushOk \in BOOLEAN : RecordDone(u, ok, pushOk)
  \/ \E e \in inflight : PublishOk(e)
  \/ \E e \in inflight : PublishFail(e)

Spec == Init /\ [][Next]_vars

\* every awaited store / provider call of a started submission eventually returns
FairSpec == Spec /\ \A p \in Procs : WF_vars(SubmitStep(p))

\* ------------------------------------------------------------ read operations
\* request ids a caller may ask for: the issued ones and one that is never issued
AskIds == ReqIds \cup {<<"req", 0>>}

\* a status read that answers an unknown id with an empty result
StatusAnswerLenient(k) ==
  [op |-> "getRouteStatus", arg |-> k, raised |-> "none",
   found |-> IF k \in DOMAIN requests THEN {k} ELSE {}]

\* prisma.routeOptimizationRequest.findUnique({where: {id}}); NotFoundException if null
StatusAnswer(k) ==
  [op |-> "getRouteStatus", arg |-> k,
   raised |-> IF k \in DOMAIN requests THEN "none" ELSE "NotFound",
   found |-> IF k \in DOMAIN requests THEN {k} ELSE {}]

GetRouteStatus(k) ==
  /\ rd = NoRead
  /\ rd' = StatusAnswer(k)
  /\ UNCHANGED <<orch, gw, calc>>

\* prisma.optimizedRoute.findMany({where: {vehicleId}})
GetRouteTracking(veh) ==
  /\ rd = NoRead
  /\ rd' = [op |-> "getRouteTracking", arg |-> veh, raised |-> "none",
            found |-> {r.id : r \in {x \in routes : x.vehicleId = veh}}]
  /\ UNCHANGED <<orch, gw, calc>>

\* prisma.routeOptimizationRequest.findMany({where: {userId}})
GetRouteHistory(usr) ==
  /\ rd = NoRead
  /\ rd' = [op |-> "getRouteHistory", arg |-> usr, raised |-> "none",
            found |-> {k \in DOMAIN requests : requests[k].userId = usr}]
  /\ UNCHANGED <<orch, gw, calc>>

\* the answer reaches the caller
ReturnRead ==
  /\ rd # NoRead
  /\ rd' = NoRead
  /\ UNCHANGED <<orch, gw, calc>>

ReadNext ==
  \/ rd = NoRead /\ Next
  \/ \E k \in AskIds : GetRouteStatus(k)
  \/ \E veh \in Vehicles : GetRouteTracking(veh)
  \/ \E usr \in Users : GetRouteHistory(usr)
  \/ ReturnRead

\* the orchestrator with a read served between any two of its steps
ReadSpec == Init /\ [][ReadNext]_vars

\* ------------------------------------------------------- route sequencer
\* Stops lie on one meridian; a latitude is given in thousandths of a degree and
\* a distance in whole metres.  The address of a stop is its position in the
\* caller's list, so the stops of a list are pairwise distinct.
StopList(lats) == [i \in 1..Len(lats) |-> [latitude |-> lats[i], address |-> i]]

StopLists == {StopList(l) : l \in UNION {[1..n -> Lats] : n \in 0..MaxStops}}

Abs(x) == IF x < 0 THEN -x ELSE x

\* Math.max that returns its second argument
MathMaxRight(a, b) == b

\* Math.max(a, b)
MathMax(a, b) == IF a >= b THEN a ELSE b

\* Math.round(num / den) for den > 0: the nearest integer, halves rounded up
MathRound(num, den) == (2 * num + den) \div (2 * den)

\* R * c for two points of equal longitude, where c is the latitude difference in radians
CalculateHaversineDistance(a, b) ==
  (Abs(a.latitude - b.latitude) * MetersPerDegree) \div 1000

\* Math.round((distance / 1000) * 2): 2 minutes per km
TravelTimeMinutes(distance) == MathRound(2 * distance, 1000)

\* splice that always drops the head of the list
SpliceHead(seq, i) == Tail(seq)

\* remainingStops.splice(i, 1)
Splice(seq, i) == SubSeq(seq, 1, i - 1) \o SubSeq(seq, i + 1, Len(seq))

\* a scan in which the last remaining stop at the shortest distance wins
RECURSIVE ScanNearestLast(_, _, _, _, _)
ScanNearestLast(cur, rem, i, nearestStopIndex, shortestDistance) ==
  IF i > Len(rem) THEN nearestStopIndex
  ELSE LET distance == CalculateHaversineDistance(cur, rem[i])
       IN IF distance <= shortestDistance
          THEN ScanNearestLast(cur, rem, i + 1, i, distance)
          ELSE ScanNearestLast(cur, rem, i + 1, nearestStopIndex, shortestDistance)

\* the inner for loop of optimizeStopOrder from index i on: the index of the
\* first remaining stop at the shortest distance from the current stop
RECURSIVE ScanNearest(_, _, _, _, _)
ScanNearest(cur, rem, i, nearestStopIndex, shortestDistance) ==
  IF i > Len(rem) THEN nearestStopIndex
  ELSE LET distance == CalculateHaversineDistance(cur, rem[i])
       IN IF distance < shortestDistance
          THEN ScanNearest(cur, rem, i + 1, i, distance)
          ELSE ScanNearest(cur, rem, i + 1, nearestStopIndex, shortestDistance)

\* the while loop of optimizeStopOrder
RECURSIVE VisitNearest(_, _, _)
VisitNearest(cur, rem, optimizedStops) ==
  IF rem = <<>> THEN optimizedStops
  ELSE LET i == ScanNearest(cur, rem, 1, 1, Infinity)
       IN VisitNearest(rem[i], Splice(rem, i), Append(optimizedStops, rem[i]))

OptimizeStopOrder(stops) ==
  IF Len(stops) <= 2 THEN stops
  ELSE VisitNearest(stops[1], Tail(stops), <<stops[1]>>)

\* totalDistance of getMockOptimizedRoute after the loop body of index i
RECURSIVE MockMeters(_, _)
MockMeters(s, i) ==
  IF i = 0 THEN 0
  ELSE MockMeters(s, i - 1)
       + (IF i < Len(s) THEN CalculateHaversineDistance(s[i], s[i + 1]) ELSE 0)

\* totalDuration (minutes) of getMockOptimizedRoute after the loop body of index i
RECURSIVE MockMinutes(_, _)
MockMinutes(s, i) ==
  IF i = 0 THEN 0
  ELSE MockMinutes(s, i - 1)
       + (IF i < Len(s)
          THEN TravelTimeMinutes(CalculateHaversineDistance(s[i], s[i + 1]))
               + (IF i < Len(s) THEN StopMinutes ELSE 0)
          ELSE 0)

Waypoint(stop, eta) ==
  [latitude |-> stop.latitude, address |-> stop.address, estimatedArrival |-> eta]

\* a sequenced route; estimatedArrival is in seconds after now
GetMockOptimizedRoute(stops) ==
  IF Len(stops) < 2
  THEN [error |-> "none", totalDistance |-> 0, totalDuration |-> 0,
        waypoints |-> [i \in 1..Len(stops) |-> Waypoint(stops[i], 0)]]
  ELSE LET s == OptimizeStopOrder(stops)
       IN [error |-> "none",
           totalDistance |-> MockMeters(s, Len(s)),
           totalDuration |-> MockMinutes(s, Len(s)) * 60,
           waypoints |-> [i \in 1..Len(s) |-> Waypoint(s[i], MockMinutes(s, i) * 60)]]

\* ---------------------------------------------------------- provider mode
\* The routing provider is asked for a route from the first stop through the
\* interior stops (which it may reorder) to the last stop.  Its answer is a
\* status and the order in which its route visits the stops; the legs of the
\* answer join consecutive stops of that order.
InteriorOrders(n) ==
  {f \in [1..(n - 2) -> 2..(n - 1)] : \A i, j \in 1..(n - 2) : f[i] = f[j] => i = j}

VisitOrders(stops) ==
  LET n == Len(stops)
  IN IF n <= 2 THEN {stops}
     ELSE {<<stops[1]>> \o [i \in 1..(n - 2) |-> stops[f[i]]] \o <<stops[n]>> :
             f \in InteriorOrders(n)}

\* one leg of the provider's route: distance.value in metres (a road distance,
\* in whole kilometres and no shorter than the straight line) and
\* duration.value in seconds (90 s per kilometre)
Leg(a, b) ==
  LET km == (CalculateHaversineDistance(a, b) + 999) \div 1000
  IN [distance |-> km * 1000, duration |-> km * 90]

\* route.legs: origin to destination; a single stop is both
Legs(visits) ==
  IF Len(visits) = 1 THEN <<Leg(visits[1], visits[1])>>
  ELSE [i \in 1..(Len(visits) - 1) |-> Leg(visits[i], visits[i + 1])]

ProviderAnswers(stops) ==
  {[status |-> st, visits |-> v] : st \in {"OK", "ZERO_RESULTS"}, v \in VisitOrders(stops)}

\* route.legs.reduce((sum, leg) => sum + leg.distance.value, 0)
RECURSIVE SumDistance(_, _)
SumDistance(legs, n) ==
  IF n = 0 THEN 0 ELSE SumDistance(legs, n - 1) + legs[n].distance

\* the sum of leg.duration.value over the first n legs (0 for a missing leg)
RECURSIVE SumDuration(_, _)
SumDuration(legs, n) ==
  IF n = 0 THEN 0
  ELSE SumDuration(legs, n - 1) + (IF n \in DOMAIN legs THEN legs[n].duration ELSE 0)

NoRoute == [error |-> "none", totalDistance |-> 0, totalDuration |-> 0, waypoints |-> <<>>]

\* GoogleMapsService.optimizeRoute with an API key configured
ProviderOptimizedRoute(stops, answer) ==
  IF stops = <<>> THEN [NoRoute EXCEPT !.error = "TypeError"]
  ELSE IF answer.status # "OK" THEN [NoRoute EXCEPT !.error = "ProviderError"]
  ELSE LET legs == Legs(answer.visits)
       IN [error |-> "none",
           totalDistance |-> SumDistance(legs, Len(legs)) \div 1000,
           totalDuration |-> SumDuration(legs, Len(legs)),
           waypoints |-> [i \in 1..Len(stops) |->
                            Waypoint(stops[i], SumDuration(legs, i - 1))]]

\* ------------------------------------------------------ metrics calculator
\* totals of the caller's stop order; totalDistance in metres, totalDuration in seconds
RECURSIVE OriginalMeters(_, _)
OriginalMeters(stops, i) ==
  IF i = 0 THEN 0
  ELSE OriginalMeters(stops, i - 1) + CalculateHaversineDistance(stops[i], stops[i + 1])

\* minutes over the first i legs: the stop time is added except for the final leg
RECURSIVE OriginalMinutes(_, _)
OriginalMinutes(stops, i) ==
  IF i = 0 THEN 0
  ELSE OriginalMinutes(stops, i - 1)
       + TravelTimeMinutes(CalculateHaversineDistance(stops[i], stops[i + 1]))
       + (IF i < Len(stops) - 1 THEN StopMinutes ELSE 0)

CalculateOriginalRouteMetrics(stops) ==
  IF Len(stops) < 2 THEN [totalDistance |-> 0, totalDuration |-> 0]
  ELSE [totalDistance |-> OriginalMeters(stops, Len(stops) - 1),
        totalDuration |-> OriginalMinutes(stops, Len(stops) - 1) * 60]

\* Units of the result: timeSaved in seconds, distanceSaved in thousandths of a
\* kilometre, fuelSaved in thousandths of a litre, co2Saved in thousandths of a
\* kilogram, costSaved in cents, the improvements in percent.
\*   fuelSavedLiters = distanceSavedMeters * avgFuelConsumption / 100000
\*   co2SavedKg      = fuelSavedLiters * 2.3
\*   totalCostSaved  = fuelSavedLiters * 1.50 + timeSavedSeconds / 3600 * 25
CalculateOptimizationMetrics(optimizedRoute, originalStops) ==
  LET originalRouteMetrics == CalculateOriginalRouteMetrics(originalStops)
      timeSavedSeconds == originalRouteMetrics.totalDuration - optimizedRoute.totalDuration
      distanceSavedMeters == originalRouteMetrics.totalDistance - optimizedRoute.totalDistance
      avgFuelConsumption == IF optimizedRoute.totalDistance < 50 * 1000 THEN 10 ELSE 7
      distanceImprovement ==
        IF originalRouteMetrics.totalDistance > 0
        THEN MathRound(100 * distanceSavedMeters, originalRouteMetrics.totalDistance)
        ELSE 0
  IN [timeSaved |-> MathMax(0, timeSavedSeconds),
      distanceSaved |-> MathMax(0, distanceSavedMeters),
      fuelSaved |-> MathMax(0, MathRound(distanceSavedMeters * avgFuelConsumption, 100)),
      co2Saved |-> MathMax(0, MathRound(distanceSavedMeters * avgFuelConsumption * 23, 1000)),
      costSaved |-> MathMax(0, MathRound(27 * distanceSavedMeters * avgFuelConsumption
                                           + 12500 * timeSavedSeconds, 18000)),
      timeImprovement |->
        MathMax(0, IF originalRouteMetrics.totalDuration > 0
                   THEN MathRound(100 * timeSavedSeconds, originalRouteMetrics.totalDuration)
                   ELSE 0),
      distanceImprovement |-> MathMax(0, distanceImprovement),
      fuelEfficiency |-> MathMax(0, distanceImprovement)]

NoMetrics ==
  [timeSaved |-> 0, distanceSaved |-> 0, fuelSaved |-> 0, co2Saved |-> 0, costSaved |-> 0,
   timeImprovement |-> 0, distanceImprovement |-> 0, fuelEfficiency |-> 0]

\* ------------------------------------------- sequencing and measuring a list
\* a stop list is handed to the sequencer
CalcStart(stops) ==
  [pc |-> "input", stops |-> stops, mode |-> "none", visits |-> <<>>, legs |-> <<>>,
   route |-> NoRoute, metrics |-> NoMetrics]

\* no API key configured: optimizeRoute returns getMockOptimizedRoute(stops)
MockRoute ==
  /\ calc.pc = "input"
  /\ calc' = [calc EXCEPT !.pc = "sequenced", !.mode = "fallback",
                          !.visits = OptimizeStopOrder(calc.stops),
                          !.route = GetMockOptimizedRoute(calc.stops)]
  /\ UNCHANGED <<orch, rd, gw>>

\* API key configured: the provider answers and optimizeRoute builds the route or throws
ProviderRoute(answer) ==
  /\ calc.pc = "input"
  /\ LET route == ProviderOptimizedRoute(calc.stops, answer)
     IN calc' = [calc EXCEPT !.pc = IF route.error = "none" THEN "sequenced" ELSE "thrown",
                             !.mode = "provider",
                             !.visits = answer.visits,
                             !.legs = IF calc.stops = <<>> THEN <<>> ELSE Legs(answer.visits),
                             !.route = route]
  /\ UNCHANGED <<orch, rd, gw>>

\* calculateOptimizationMetrics(optimizedRoute, request.stops)
Measure ==
  /\ calc.pc = "sequenced"
  /\ calc' = [calc EXCEPT !.pc = "measured",
                          !.metrics = CalculateOptimizationMetrics(calc.route, calc.stops)]
  /\ UNCHANGED <<orch, rd, gw>>

CalcNext ==
  \/ MockRoute
  \/ \E answer \in ProviderAnswers(calc.stops) : ProviderRoute(answer)
  \/ Measure

CalcInit ==
  /\ OrchInit /\ rd = NoRead /\ conn = NoConns /\ publicKey = "pem"
  /\ calc \in {CalcStart(stops) : stops \in StopLists}

\* the sequencer and the metrics calculator applied to every stop list
CalcSpec == CalcInit /\ [][CalcNext]_vars

\* ------------------------------------------------------- real-time gateway
\* !token: no value, or the empty string
Falsy(token) == token \in {"none", ""}

\* a token selection that prefers handshake.auth.token to the cookie
HandshakeTokenAuthFirst(h) ==
  IF ~Falsy(h.auth) THEN h.auth
  ELSE IF ~Falsy(h.cookie) THEN h.cookie
  ELSE h.header

\* the token handleConnection verifies: the access_token cookie, else
\* handshake.auth.token, else the Authorization header
HandshakeToken(h) ==
  IF ~Falsy(h.cookie) THEN h.cookie
  ELSE IF ~Falsy(h.auth) THEN h.auth
  ELSE h.header

\* a verification that accepts every token
VerifyAnything(token, key) == TRUE

\* jwt.verify(token, publicKey, {algorithms: ['RS256'], issuer}) does not throw;
\* with no key configured handleConnection throws before verifying
Verify(token, key) == key # "" /\ token \in {"tok_u1", "tok_u2", "tok_anon"}

\* payload.userId
PayloadUserId(token) ==
  IF token = "tok_u1" THEN "u1" ELSE IF token = "tok_u2" THEN "u2" ELSE "undefined"

\* a subscription check that lets every connection in
HasIdentityAlways(userId) == TRUE

\* if (!userId) in handleSubscribeRouteUpdates
HasIdentity(userId) == userId # "undefined"

Frame(name, requestId) == [name |-> name, requestId |-> requestId]

\* handleConnection; client.disconnect() runs handleDisconnect
HandleConnection(c, h) ==
  /\ conn[c].state = "fresh"
  /\ LET token == HandshakeToken(h)
     IN conn' = [conn EXCEPT ![c] =
          IF Falsy(token)
          THEN [@ EXCEPT !.state = "closed", !.handshake = h, !.token = token]
          ELSE IF ~Verify(token, publicKey)
          THEN [@ EXCEPT !.state = "closed", !.handshake = h, !.token = token,
                         !.checked = TRUE]
          ELSE [@ EXCEPT !.state = "open", !.handshake = h, !.token = token,
                         !.checked = TRUE,
                         !.userId = PayloadUserId(token),
                         !.registered = TRUE,
                         !.rooms = {<<"user", PayloadUserId(token)>>},
                         !.frames = <<Frame("connected", "none")>>]]
  /\ UNCHANGED <<orch, rd, publicKey, calc>>

\* the socket goes away: handleDisconnect; socket.io takes it out of its rooms
HandleDisconnect(c) ==
  /\ conn[c].state = "open"
  /\ conn' = [conn EXCEPT ![c] = [@ EXCEPT !.state = "closed", !.registered = FALSE,
                                           !.rooms = {}]]
  /\ UNCHANGED <<orch, rd, publicKey, calc>>

\* @SubscribeMessage('subscribe_route_updates')
HandleSubscribeRouteUpdates(c, k) ==
  /\ conn[c].state = "open"
  /\ Len(conn[c].msgs) < MaxMsgs
  /\ conn' = [conn EXCEPT ![c] =
       IF HasIdentity(conn[c].userId)
       THEN [@ EXCEPT !.msgs = Append(@, Frame("subscribe_route_updates", k)),
                      !.rooms = @ \cup {<<"route", k>>},
                      !.frames = Append(@, Frame("subscribed", k))]
       ELSE [@ EXCEPT !.msgs = Append(@, Frame("subscribe_route_updates", k)),
                      !.frames = Append(@, Frame("error", "none"))]]
  /\ UNCHANGED <<orch, rd, publicKey, calc>>

\* @SubscribeMessage('unsubscribe_route_updates')
HandleUnsubscribeRouteUpdates(c, k) ==
  /\ conn[c].state = "open"
  /\ Len(conn[c].msgs) < MaxMsgs
  /\ conn' = [conn EXCEPT ![c] =
       [@ EXCEPT !.msgs = Append(@, Frame("unsubscribe_route_updates", k)),
                 !.rooms = @ \ {<<"route", k>>},
                 !.frames = Append(@, Frame("unsubscribed", k))]]
  /\ UNCHANGED <<orch, rd, publicKey, calc>>

GwNext ==
  \/ \E c \in Conns, h \in Handshakes : HandleConnection(c, h)
  \/ \E c \in Conns : HandleDisconnect(c)
  \/ \E c \in Conns, k \in SubIds : HandleSubscribeRouteUpdates(c, k)
  \/ \E c \in Conns, k \in SubIds : HandleUnsubscribeRouteUpdates(c, k)

GwInit ==
  /\ OrchInit /\ rd = NoRead /\ calc = NoCalc
  /\ conn = NoConns
  /\ publicKey \in {"", "pem"}

\* the gateway serving connections, with or without a configured public key
GwSpec == GwInit /\ [][GwNext]_vars

\* ------------------------------------------- one submission with live clients
\* handshakes of two users' clients: u1's token in the cookie, u2's in auth.token
LiveHandshakes ==
  {[cookie |-> "tok_u1", auth |-> "none", header |-> "none"],
   [cookie |-> "none", auth |-> "tok_u2", header |-> "none"]}

\* the first submission runs while clients connect, subscribe, unsubscribe and
\* leave; its publications stay pending
LiveNext ==
  \/ \E veh \in Vehicles, usr \in Users, ok \in BOOLEAN, pushOk \in BOOLEAN :
        Submit(1, veh, usr, ok, pushOk)
  \/ SubmitStep(1)
  \/ \E c \in Conns, h \in LiveHandshakes : HandleConnection(c, h)
  \/ \E c \in Conns : HandleDisconnect(c)
  \/ \E c \in Conns, k \in SubIds : HandleSubscribeRouteUpdates(c, k)
  \/ \E c \in Conns, k \in SubIds : HandleUnsubscribeRouteUpdates(c, k)

LiveSpec == Init /\ [][LiveNext]_vars

TypeOK ==
  /\ DOMAIN requests \subseteq ReqIds
  /\ \A k \in DOMAIN requests : requests[k].status \in Statuses
  /\ \A p \in Procs : sub[p].pc \in {"idle", "sequencing", "inserting",
                                     "completing", "failing", "done"}
  /\ faults \in 0..MaxFaults

\* ------------------------------------------------------------------ helpers
Terminal == {"COMPLETED", "FAILED"}

Persisted(p) == ReqId(p) \in DOMAIN requests

Elems(seq) == {seq[i] : i \in DOMAIN seq}

\* the publishEvent call for the event was started (whatever became of it)
Started(type, key) ==
  \/ <<type, key>> \in inflight
  \/ <<type, key>> \in rejected
  \/ type \in Elems(bus[key])

\* a room push of that name was attempted for the key
Pushed(name, key) == \E m \in Elems(pushes[key]) : m.name = name

\* everything the store and the caller hold of submission p
OwnState(p) ==
  <<sub[p],
    IF Persisted(p) THEN requests[ReqId(p)] ELSE "absent",
    RoutesOf(ReqId(p)),
    hist[ReqId(p)]>>

\* ------------------------------------------------------------------- claims

\* C1: every request is created PROCESSING and, once COMPLETED or FAILED, its
\* status never changes again: the persisted status sequence of a request is a
\* prefix of [PROCESSING, COMPLETED] or of [PROCESSING, FAILED].
C1_StatusTraces ==
  \A k \in ReqIds :
    hist[k] \in {<<>>, <<"PROCESSING">>, <<"PROCESSING", "COMPLETED">>,
                 <<"PROCESSING", "FAILED">>}

\* C2: a request whose persisted status is COMPLETED has exactly one
\* OptimizedRoute referencing it.
C2_CompletedHasOneRoute ==
  \A k \in DOMAIN requests :
    requests[k].status = "COMPLETED" => Cardinality(RoutesOf(k)) = 1

C2_Witness ==
  \E p \in Procs :
    /\ sub[p].pc = "done" /\ sub[p].returned
    /\ requests[ReqId(p)].status = "COMPLETED"
    /\ RoutesOf(ReqId(p)) = {[id |-> RouteId(p), requestId |-> ReqId(p),
                              vehicleId |-> sub[p].vehicleId,
                              waypoints |-> WaypointsOf(p)]}

\* C3: a request whose persisted status is FAILED has no OptimizedRoute
\* referencing it, wherever submit failed.
C3_FailedHasNoRoute ==
  \A k \in DOMAIN requests : requests[k].status = "FAILED" => RoutesOf(k) = {}

\* C4: completedAt is set if and only if the status is COMPLETED or FAILED.
C4_CompletedAtIffTerminal ==
  \A k \in DOMAIN requests : requests[k].completedAt <=> requests[k].status \in Terminal

C4_Witness ==
  /\ \E k \in DOMAIN requests : requests[k].status = "FAILED" /\ requests[k].completedAt
  /\ \E k \in DOMAIN requests : requests[k].status = "PROCESSING" /\ ~requests[k].completedAt

\* C5: when the sequencer or the route insertion raised and the FAILED write
\* succeeded, the request is FAILED with completedAt set, the failed push was
\* triggered, and submit raised the error that triggered the failure.
C5_FailureRecordedAndReraised ==
  \A p \in Procs :
    (sub[p].pc = "done" /\ sub[p].err \in {"provider", "insert"} /\ sub[p].failWrite = "ok")
      => /\ requests[ReqId(p)].status = "FAILED"
         /\ requests[ReqId(p)].completedAt
         /\ Pushed("route_optimization_failed", ReqId(p))
         /\ sub[p].raised = sub[p].err

\* C6: when the write that records FAILED itself fails, submit raises the
\* original triggering error and the persisted status remains PROCESSING.
C6_OriginalErrorAfterFailedWrite ==
  \A p \in Procs :
    sub[p].failWrite = "rejected"
      => /\ sub[p].raised = sub[p].err
         /\ Persisted(p) => requests[ReqId(p)].status = "PROCESSING"

\* C7: the settlement of a publication, rejected or resolved, is a step that
\* changes no stored record, no persisted status history, no room push and no
\* position, error or result of any submit or updateRoute call; so the outcome
\* of an operation is the same whether its publication fails or succeeds.
C7_PublishFailureIsolated ==
  [][(rejected' # rejected \/ bus' # bus)
       => UNCHANGED <<requests, routes, updates, hist, sub, upd, pushes>>]_vars

C7_Witness ==
  \E p \in Procs :
    /\ <<"ROUTE_OPTIMIZATION_REQUESTED", ReqId(p)>> \in rejected
    /\ <<"ROUTE_OPTIMIZED", ReqId(p)>> \in rejected
    /\ sub[p].pc = "done" /\ sub[p].returned /\ sub[p].raised = "none"
    /\ requests[ReqId(p)].status = "COMPLETED"
    /\ Cardinality(RoutesOf(ReqId(p))) = 1

\* C8: a room push that fails is never escalated: no submit or updateRoute call
\* catches or raises a push failure.
C8_PushFailureSuppressed ==
  /\ \A p \in Procs :
       /\ sub[p].err \notin {"pushRequested", "pushOptimized"}
       /\ sub[p].raised \notin {"pushRequested", "pushOptimized", "pushFailed"}
  /\ \A u \in UpdOps : upd[u].raised # "pushUpdate"

\* C9: after every lifecycle transition both channels are fired: an event
\* publication is started and a room push is attempted.
C9_BothChannelsFired ==
  /\ \A k \in ReqIds :
       /\ "PROCESSING" \in Elems(hist[k])
            => /\ Started("ROUTE_OPTIMIZATION_REQUESTED", k)
               /\ Pushed("route_optimization_requested", k)
       /\ "COMPLETED" \in Elems(hist[k])
            => /\ Started("ROUTE_OPTIMIZED", k)
               /\ Pushed("route_optimized", k)
       /\ "FAILED" \in Elems(hist[k])
            => /\ Started("ROUTE_OPTIMIZATION_FAILED", k)
               /\ Pushed("route_optimization_failed", k)
  /\ \A r \in updates :
       /\ Started("ROUTE_UPDATE_REQUESTED", r.routeId)
       /\ Pushed("route_update_requested", r.routeId)

C11_NotFoundHasNoEffect ==
  [][\A u \in UpdOps :
       /\ (/\ upd[u].pc = "idle" /\ upd'[u].pc # "idle" /\ upd'[u].raised # "find"
           /\ ~\E r \in routes : r.id = upd'[u].routeId /\ r.vehicleId = upd'[u].vehicleId)
          => /\ upd'[u].pc = "done" /\ upd'[u].raised = "NotFound" /\ ~upd'[u].returned
             /\ UNCHANGED <<requests, routes, updates, inflight, bus, rejected, pushes>>
       /\ upd'[u].raised = "NotFound"
          => /\ upd'[u].pc = "done"
             /\ \A r \in updates' : r.id # u]_vars

\* a call that named a stored route with another vehicle's id was answered NotFound
C11_Witness ==
  \E u \in UpdOps :
    /\ upd[u].raised = "NotFound"
    /\ \E r \in routes : r.id = upd[u].routeId /\ r.vehicleId # upd[u].vehicleId
    /\ updates = {}

\* C13: concurrent submissions are independent: a step of one submission leaves
\* the request, the routes, the status history and the caller-visible state of
\* every other submission unchanged; the request stored under a submission's id
\* carries that submission's vehicle and user, and every route that references
\* the id is the one route that submission inserted.
C13_SubmissionsIndependent ==
  [][\A p \in Procs :
       /\ \A q \in Procs : (q # p /\ sub'[q] # sub[q]) => OwnState(p)' = OwnState(p)
       /\ Persisted(p)' => /\ requests'[ReqId(p)].vehicleId = sub'[p].vehicleId
                           /\ requests'[ReqId(p)].userId = sub'[p].userId
       /\ \A r \in RoutesOf(ReqId(p))' :
            /\ r.id = RouteId(p) /\ r.vehicleId = sub'[p].vehicleId
            /\ sub'[p].pc \in {"completing", "failing", "done"}
       /\ Cardinality(RoutesOf(ReqId(p))') <= 1]_vars

\* two submissions for the same vehicle and user ran to the end: the second one
\* returned its result while the first one failed
C13_Witness ==
  /\ NumSubmits >= 2
  /\ sub[1].pc = "done" /\ sub[2].pc = "done"
  /\ sub[1].vehicleId = sub[2].vehicleId /\ sub[1].userId = sub[2].userId
  /\ sub[1].raised # "none" /\ Persisted(1) /\ requests[ReqId(1)].status = "FAILED"
  /\ sub[2].returned /\ requests[ReqId(2)].status = "COMPLETED"
  /\ RoutesOf(ReqId(2)) = {[id |-> RouteId(2), requestId |-> ReqId(2),
                            vehicleId |-> sub[2].vehicleId,
                            waypoints |-> WaypointsOf(2)]}

\* C12: getRouteStatus answers NotFound exactly for an id with no stored request,
\* and a step that serves getRouteStatus, getRouteTracking or getRouteHistory
\* changes no request, route or route update, starts no publication and
\* attempts no room push.
C12_ReadsAreReadOnly ==
  [][rd' # rd =>
       /\ UNCHANGED <<requests, routes, updates, hist, inflight, bus, rejected, pushes>>
       /\ rd'.op = "getRouteStatus" =>
            /\ rd'.raised = "NotFound" <=> rd'.arg \notin DOMAIN requests
            /\ rd'.raised = "none" => rd'.found = {rd'.arg}]_vars

\* a status read of an id that was never stored was answered NotFound while
\* another request is stored and being processed
C12_Witness ==
  /\ rd.op = "getRouteStatus" /\ rd.raised = "NotFound"
  /\ rd.arg \notin DOMAIN requests
  /\ \E k \in DOMAIN requests : requests[k].status = "PROCESSING"

\* the sequencer returned a route for the stop list
Sequenced == calc.pc \in {"sequenced", "measured"}

\* C14: for every non-empty stop list the fallback sequencer returns waypoints
\* that are a permutation of the input stops (same length, every stop exactly
\* once), with totalDistance >= 0 and totalDuration >= 0.
C14_FallbackIsPermutation ==
  (Sequenced /\ calc.mode = "fallback" /\ calc.stops # <<>>) =>
    LET w == calc.route.waypoints
        n == Len(calc.stops)
    IN /\ Len(w) = n
       /\ \A i \in 1..n : Cardinality({j \in 1..Len(w) : w[j].address = i}) = 1
       /\ \A j \in 1..Len(w) :
            /\ w[j].address \in 1..n
            /\ w[j].latitude = calc.stops[w[j].address].latitude
       /\ calc.route.totalDistance >= 0
       /\ calc.route.totalDuration >= 0

\* the greedy loop reordered a list of three or more stops
C14_Witness ==
  /\ Sequenced /\ calc.mode = "fallback"
  /\ Len(calc.stops) >= 3
  /\ [i \in 1..Len(calc.stops) |-> calc.route.waypoints[i].address]
       # [i \in 1..Len(calc.stops) |-> i]

\* C15: in both modes the waypoints of the sequenced route are the stops in the
\* order in which the route visits them (in provider mode the order of the
\* provider's route), and in provider mode each waypoint's ETA is the sum of the
\* durations of the legs that lead to that stop.
C15_WaypointsAreVisitOrder ==
  Sequenced =>
    LET w == calc.route.waypoints
    IN /\ Len(w) = Len(calc.visits)
       /\ \A i \in 1..Len(w) :
            /\ w[i].address = calc.visits[i].address
            /\ w[i].latitude = calc.visits[i].latitude
            /\ calc.mode = "provider" => w[i].estimatedArrival = SumDuration(calc.legs, i - 1)

\* C16: totalDistance is in metres and totalDuration in seconds in both modes:
\* in provider mode they are the sums of the provider's per-leg distances and
\* durations, in fallback mode the sums over the legs of the visit order.
C16_TotalsInMetresAndSeconds ==
  Sequenced =>
    /\ calc.mode = "provider" =>
         /\ calc.route.totalDistance = SumDistance(calc.legs, Len(calc.legs))
         /\ calc.route.totalDuration = SumDuration(calc.legs, Len(calc.legs))
    /\ (calc.mode = "fallback" /\ Len(calc.visits) >= 2) =>
         calc.route.totalDistance = OriginalMeters(calc.visits, Len(calc.visits) - 1)

\* C17: every field the metrics calculator returns is >= 0.
C17_MetricsNonNegative ==
  calc.pc = "measured" =>
    /\ calc.metrics.timeSaved >= 0
    /\ calc.metrics.distanceSaved >= 0
    /\ calc.metrics.fuelSaved >= 0
    /\ calc.metrics.co2Saved >= 0
    /\ calc.metrics.costSaved >= 0
    /\ calc.metrics.timeImprovement >= 0
    /\ calc.metrics.distanceImprovement >= 0
    /\ calc.metrics.fuelEfficiency >= 0

\* metrics were computed for a sequenced route that is longer and slower than the baseline
C17_Witness ==
  /\ calc.pc = "measured"
  /\ calc.route.totalDistance > CalculateOriginalRouteMetrics(calc.stops).totalDistance
  /\ calc.route.totalDuration > CalculateOriginalRouteMetrics(calc.stops).totalDuration

\* C20: the sequencer never returns a route for an empty stop list.
C20_EmptyListNeverSequenced == Sequenced => calc.stops # <<>>

\* C18: a connection that presents no token, or whose token fails verification
\* (a token jwt.verify rejects, or no public key to verify with), is closed by
\* handleConnection and is at no time registered, bound to an identity, a member
\* of a room or sent a frame.
C18_UnauthenticatedNeverRegistered ==
  \A c \in Conns :
    (conn[c].token \in {"none", "forged"} \/ publicKey = "") =>
      /\ conn[c].state \in {"fresh", "closed"}
      /\ ~conn[c].registered
      /\ conn[c].userId = "undefined"
      /\ conn[c].rooms = {}
      /\ conn[c].frames = <<>>

\* a connection with a token that fails verification was closed while another
\* connection is registered
C18_Witness ==
  \E c, d \in Conns :
    /\ conn[c].state = "closed" /\ conn[c].token = "forged"
    /\ conn[d].state = "open" /\ conn[d].registered

\* C19: a subscribe message from a connection without a bound user id is answered
\* with an error frame and changes no room membership; a connection is in a
\* request room only if it is open and its token was verified.
C19_SubscribeNeedsIdentity ==
  [][\A c \in Conns :
       /\ (/\ Len(conn'[c].msgs) = Len(conn[c].msgs) + 1
           /\ conn'[c].msgs[Len(conn'[c].msgs)].name = "subscribe_route_updates"
           /\ conn[c].userId = "undefined")
          => /\ conn'[c].rooms = conn[c].rooms
             /\ conn'[c].frames = Append(conn[c].frames, Frame("error", "none"))
       /\ \A k \in SubIds :
            <<"route", k>> \in conn'[c].rooms =>
              /\ conn'[c].state = "open"
              /\ Verify(conn'[c].token, publicKey)
              /\ conn'[c].userId # "undefined"]_vars

\* an open connection without a user id asked to subscribe and got the error frame
C19_Witness ==
  \E c \in Conns :
    /\ conn[c].state = "open" /\ conn[c].userId = "undefined"
    /\ conn[c].msgs # <<>>
    /\ conn[c].msgs[Len(conn[c].msgs)].name = "subscribe_route_updates"
    /\ conn[c].frames[Len(conn[c].frames)] = Frame("error", "none")
    /\ \A k \in SubIds : <<"route", k>> \notin conn[c].rooms

\* the stop a waypoint of the sequenced route stands for
StopOf(w) == [latitude |-> w.latitude, address |-> w.address]

\* the stops of the input that the first j waypoints of the route do not cover
Unvisited(j) ==
  {calc.stops[i] : i \in 1..Len(calc.stops)}
    \ {StopOf(calc.route.waypoints[i]) : i \in 1..j}

\* C28: for 3 or more stops the fallback order starts at the first input stop and
\* every further stop is, among the stops not yet visited, at minimum distance
\* from the stop before it, the earliest in input order among those at that
\* distance; for 1 or 2 stops the order is the input order.
C28_GreedyNearestNeighbour ==
  (Sequenced /\ calc.mode = "fallback") =>
    LET w == calc.route.waypoints
        n == Len(calc.stops)
    IN /\ Len(w) = n
       /\ n <= 2 => \A i \in 1..n : StopOf(w[i]) = calc.stops[i]
       /\ n >= 3 =>
            /\ StopOf(w[1]) = calc.stops[1]
            /\ \A j \in 2..n :
                 /\ StopOf(w[j]) \in Unvisited(j - 1)
                 /\ \A t \in Unvisited(j - 1) :
                      \/ CalculateHaversineDistance(StopOf(w[j - 1]), StopOf(w[j]))
                           < CalculateHaversineDistance(StopOf(w[j - 1]), t)
                      \/ /\ CalculateHaversineDistance(StopOf(w[j - 1]), StopOf(w[j]))
                            = CalculateHaversineDistance(StopOf(w[j - 1]), t)
                         /\ w[j].address <= t.address

\* the greedy loop met two stops at different places at the same shortest
\* distance and took the earlier one, and the route is not in input order
C28_Witness ==
  /\ Sequenced /\ calc.mode = "fallback" /\ Len(calc.stops) >= 3
  /\ \E i \in 1..Len(calc.stops) : StopOf(calc.route.waypoints[i]) # calc.stops[i]
  /\ \E j \in 2..Len(calc.stops) : \E t \in Unvisited(j) :
       /\ t.latitude # calc.route.waypoints[j].latitude
       /\ t.address > calc.route.waypoints[j].address
       /\ CalculateHaversineDistance(StopOf(calc.route.waypoints[j - 1]), t)
            = CalculateHaversineDistance(StopOf(calc.route.waypoints[j - 1]),
                                         StopOf(calc.route.waypoints[j]))

\* the rounded travel minutes of the first n legs of the sequenced route
RECURSIVE LegMinutes(_)
LegMinutes(n) ==
  IF n = 0 THEN 0
  ELSE LegMinutes(n - 1)
       + MathRound(2 * CalculateHaversineDistance(StopOf(calc.route.waypoints[n]),
                                                  StopOf(calc.route.waypoints[n + 1])), 1000)

\* C29: a fallback route over n >= 2 stops has totalDuration
\* 60 * (sum over its n-1 legs of round(2 * km) + 5 * (n - 2)) seconds.
C29_DwellPerInteriorStop ==
  (Sequenced /\ calc.mode = "fallback" /\ Len(calc.stops) >= 2) =>
    calc.route.totalDuration
      = 60 * (LegMinutes(Len(calc.stops) - 1) + StopMinutes * (Len(calc.stops) - 2))

\* C30: in fallback mode the first waypoint's ETA is now, the ETAs do not
\* decrease along the route, the last one is now + totalDuration, each one is the
\* duration accumulated on arriving at the stop; for fewer than 2 stops every
\* ETA is now.
C30_EtaIsArrival ==
  (Sequenced /\ calc.mode = "fallback") =>
    LET w == calc.route.waypoints
        n == Len(w)
    IN /\ Len(calc.stops) < 2 => \A i \in 1..n : w[i].estimatedArrival = 0
       /\ Len(calc.stops) >= 2 =>
            /\ w[1].estimatedArrival = 0
            /\ \A i \in 1..(n - 1) : w[i].estimatedArrival <= w[i + 1].estimatedArrival
            /\ w[n].estimatedArrival = calc.route.totalDuration

\* C21: a submission whose provider call failed ends with its request FAILED and
\* the provider's error raised to the caller, and no event of the request is on
\* the bus more than once.
C21_ProviderFailureFailsRequest ==
  \A p \in Procs :
    (sub[p].pc = "done" /\ sub[p].err = "provider") =>
      /\ requests[ReqId(p)].status = "FAILED"
      /\ sub[p].raised = "provider"
      /\ \A i, j \in 1..Len(bus[ReqId(p)]) :
           bus[ReqId(p)][i] = bus[ReqId(p)][j] => i = j

\* C22: in every state of the store a route referencing a request exists if and
\* only if the request's status is COMPLETED.
C22_RouteIffCompleted ==
  \A k \in DOMAIN requests : RoutesOf(k) # {} <=> requests[k].status = "COMPLETED"

\* the sequencer call of submission p has begun
SequencerCalled(p) ==
  \/ sub[p].pc \in {"sequencing", "inserting", "completing"}
  \/ sub[p].err \in {"provider", "insert", "update", "pushOptimized"}
  \/ sub[p].returned

\* C23: within a submit the requested room push is issued after the PROCESSING
\* record is persisted and before the sequencer call begins: a sequencer call has
\* the push behind it, and a push has the PROCESSING record behind it.
C23_RequestedPushBeforeSequencing ==
  \A p \in Procs :
    /\ SequencerCalled(p) => Pushed("route_optimization_requested", ReqId(p))
    /\ Pushed("route_optimization_requested", ReqId(p)) =>
         Persisted(p) /\ hist[ReqId(p)][1] = "PROCESSING"
    /\ Len(SelectSeq(pushes[ReqId(p)],
                     LAMBDA m : m.name = "route_optimization_requested")) <= 1

\* the sequencer is working for a subscriber who has been told of PROCESSING
C23_Witness ==
  \E p \in Procs :
    /\ sub[p].pc = "sequencing"
    /\ requests[ReqId(p)].status = "PROCESSING"
    /\ pushes[ReqId(p)] = <<[name |-> "route_optimization_requested", delivered |-> TRUE]>>

\* a room push of that name reached the room of the key
Delivered(name, key) == \E m \in Elems(pushes[key]) : m.name = name /\ m.delivered

\* C24: terminal notifications follow persistence: once the optimized event is on
\* the bus or the optimized push has reached the room, the request is COMPLETED
\* and has its route; once the failed push has reached the room, it is FAILED.
C24_NotificationMatchesStatus ==
  \A p \in Procs :
    /\ ("ROUTE_OPTIMIZED" \in Elems(bus[ReqId(p)])
          \/ Delivered("route_optimized", ReqId(p))) =>
         /\ Persisted(p) /\ requests[ReqId(p)].status = "COMPLETED"
         /\ RoutesOf(ReqId(p)) # {}
    /\ Delivered("route_optimization_failed", ReqId(p)) =>
         Persisted(p) /\ requests[ReqId(p)].status = "FAILED"

\* C25: submit and recordUpdate do not wait for publication: whatever is still
\* in flight on the bus, every suspended handler can take its next step with a
\* successful store or provider answer, up to the terminal status and the return.
C25_NeverWaitsForPublication ==
  /\ \A p \in Procs :
       /\ sub[p].pc = "sequencing" => ENABLED SequenceDone(p, TRUE)
       /\ sub[p].pc = "inserting" => ENABLED InsertDone(p, TRUE)
       /\ sub[p].pc = "completing" => ENABLED CompleteDone(p, TRUE, TRUE)
       /\ (sub[p].pc = "failing" /\ Persisted(p)) => ENABLED FailDone(p, TRUE, TRUE)
  /\ \A u \in UpdOps :
       upd[u].pc = "recording" => ENABLED RecordDone(u, TRUE, TRUE)

\* a submission has returned its COMPLETED result and a recordUpdate has
\* returned while none of the three publications has completed
C25_Witness ==
  \E p \in Procs, u \in UpdOps :
    /\ sub[p].returned /\ requests[ReqId(p)].status = "COMPLETED"
    /\ {<<"ROUTE_OPTIMIZATION_REQUESTED", ReqId(p)>>, <<"ROUTE_OPTIMIZED", ReqId(p)>>}
         \subseteq inflight
    /\ upd[u].returned
    /\ <<"ROUTE_UPDATE_REQUESTED", upd[u].routeId>> \in inflight

\* C26: a recordUpdate that found its route appends exactly one RouteUpdate with
\* the routeId and vehicleId of the call and the waypoints the route has in the
\* store, or appends nothing and raises; it changes no route and no request and
\* runs no sequencer.
C26_UpdateAppendsOneRecord ==
  [][\A u \in UpdOps :
       (upd[u].pc = "recording" /\ upd'[u].pc = "done") =>
         /\ routes' = routes /\ requests' = requests /\ hist' = hist /\ sub' = sub
         /\ \E r \in routes :
              /\ r.id = upd[u].routeId /\ r.vehicleId = upd[u].vehicleId
              /\ IF upd'[u].raised = "create"
                 THEN updates' = updates
                 ELSE /\ updates' = updates \cup {[id |-> u, routeId |-> r.id,
                                                   vehicleId |-> r.vehicleId,
                                                   newWaypoints |-> r.waypoints]}
                      /\ Cardinality(updates') = Cardinality(updates) + 1
    ]_vars

\* with two routes in the store a recordUpdate for the second one has returned:
\* the update carries that route's waypoints and its request is still COMPLETED
C26_Witness ==
  \E u \in UpdOps, r \in routes :
    /\ upd[u].returned /\ Cardinality(routes) >= 2
    /\ r.id = RouteId(2) /\ requests[r.requestId].status = "COMPLETED"
    /\ updates = {[id |-> u, routeId |-> r.id, vehicleId |-> r.vehicleId,
                   newWaypoints |-> r.waypoints]}

\* what a request was created with
Identity(rec) ==
  [vehicleId |-> rec.vehicleId, userId |-> rec.userId,
   stops |-> rec.stops, preferences |-> rec.preferences]

\* C27: no step deletes a request, a route or a route update; a request keeps
\* the vehicleId, userId, stops and preferences it was created with under its
\* id; a stored route keeps all its fields and no second route takes its id.
C27_NothingDeletedOrRewritten ==
  [][/\ DOMAIN requests \subseteq DOMAIN requests'
     /\ \A k \in DOMAIN requests : Identity(requests'[k]) = Identity(requests[k])
     /\ routes \subseteq routes'
     /\ \A r \in routes' \ routes : \A x \in routes : x.id # r.id
     /\ updates \subseteq updates'
    ]_vars

\* everything has run: one request COMPLETED with its route and an update on
\* it, the other FAILED, each request still holding what it was created with
C27_Witness ==
  /\ \A p \in Procs : sub[p].pc = "done" /\ Persisted(p)
  /\ \A u \in UpdOps : upd[u].pc = "done"
  /\ \E p, q \in Procs :
       /\ requests[ReqId(p)].status = "COMPLETED" /\ RoutesOf(ReqId(p)) # {}
       /\ requests[ReqId(p)].stops = <<"stops", p>>
       /\ requests[ReqId(q)].status = "FAILED"
       /\ requests[ReqId(q)].preferences = <<"preferences", q>>
       /\ \E x \in updates : x.routeId = RouteId(p)

\* C31: for every stop list whose fallback visit order is the input order the
\* baseline distance is the fallback totalDistance and the baseline duration is
\* the fallback totalDuration.
C31_BaselineEqualsFallback ==
  (Sequenced /\ calc.mode = "fallback" /\ calc.visits = calc.stops) =>
    /\ CalculateOriginalRouteMetrics(calc.stops).totalDistance = calc.route.totalDistance
    /\ CalculateOriginalRouteMetrics(calc.stops).totalDuration = calc.route.totalDuration

\* C32: costSaved is computed from the reported, non-negative savings:
\* costSaved = fuelSaved * 1.50 + timeSaved / 3600 * 25 rounded to cents, the
\* fuel being the one of the reported distanceSaved.
C32_CostFromClampedSavings ==
  calc.pc = "measured" =>
    LET avgFuelConsumption == IF calc.route.totalDistance < 50 * 1000 THEN 10 ELSE 7
    IN calc.metrics.costSaved
         = MathRound(27 * calc.metrics.distanceSaved * avgFuelConsumption
                       + 12500 * calc.metrics.timeSaved, 18000)

\* C33: the token of a connect is the cookie's token when the cookie carries
\* one, else the auth token, else the header's token; a lower source is never
\* used when a higher one is present, even when the higher one fails
\* verification; the socket is closed without verification exactly when all
\* three sources are absent, and is let in exactly when its token verifies.
C33_TokenPrecedence ==
  \A c \in Conns :
    conn[c].state # "fresh" =>
      LET h == conn[c].handshake
      IN /\ ~Falsy(h.cookie) => conn[c].token = h.cookie
         /\ (Falsy(h.cookie) /\ ~Falsy(h.auth)) => conn[c].token = h.auth
         /\ (Falsy(h.cookie) /\ Falsy(h.auth) /\ ~Falsy(h.header)) =>
              conn[c].token = h.header
         /\ ~conn[c].checked <=> (Falsy(h.cookie) /\ Falsy(h.auth) /\ Falsy(h.header))
         /\ ~conn[c].checked => conn[c].state = "closed" /\ conn[c].frames = <<>>
         /\ conn[c].frames # <<>> <=> (conn[c].checked /\ Verify(conn[c].token, publicKey))

\* a connect whose cookie token failed verification was closed although its
\* auth token would have verified; another one with an empty cookie was let in
\* on its auth token, with a different token in the header
C33_Witness ==
  \E c, d \in Conns :
    /\ conn[c].handshake.cookie = "forged" /\ conn[c].handshake.auth = "tok_u2"
    /\ conn[c].state = "closed" /\ conn[c].checked /\ conn[c].frames = <<>>
    /\ publicKey = "pem"
    /\ conn[d].handshake = [cookie |-> "", auth |-> "tok_u2", header |-> "tok_anon"]
    /\ conn[d].state = "open" /\ conn[d].userId = "u2"

\* C34: the registry holds exactly the connections that authenticated and have
\* not disconnected; every registered connection has a bound user id and is in
\* the room of that user.
C34_RegistryIsAuthenticated ==
  \A c \in Conns :
    /\ conn[c].registered <=>
         (conn[c].state = "open" /\ Verify(conn[c].token, publicKey))
    /\ conn[c].registered =>
         /\ conn[c].userId # "undefined"
         /\ <<"user", conn[c].userId>> \in conn[c].rooms

\* the names of the room pushes of the service
PushNames ==
  {"route_optimization_requested", "route_optimized",
   "route_optimization_failed", "route_update_requested"}

\* the pushed frames among the frames a socket has received
Lifecycle(frames) == SelectSeq(frames, LAMBDA f : f.name \in PushNames)

\* C35: a delivered room push for id k appends its frame to exactly the sockets
\* that are in room k when it is made; no other step gives a socket a pushed
\* frame (nothing is replayed to a later subscriber); an unsubscribe from k takes
\* the socket out of no other room.
C35_PushReachesCurrentMembers ==
  [][/\ \A k \in Keys :
          pushes'[k] # pushes[k] =>
            LET m == pushes'[k][Len(pushes'[k])]
            IN \A c \in Conns :
                 conn'[c].frames =
                   IF m.delivered /\ <<"route", k>> \in conn[c].rooms
                   THEN Append(conn[c].frames, [name |-> m.name, requestId |-> k])
                   ELSE conn[c].frames
     /\ pushes' = pushes =>
          \A c \in Conns : Lifecycle(conn'[c].frames) = Lifecycle(conn[c].frames)
     /\ \A c \in Conns :
          (/\ Len(conn'[c].msgs) = Len(conn[c].msgs) + 1
           /\ conn'[c].msgs[Len(conn'[c].msgs)].name = "unsubscribe_route_updates")
          => conn'[c].rooms
               = conn[c].rooms \ {<<"route", conn'[c].msgs[Len(conn'[c].msgs)].requestId>>}
    ]_vars

\* the submission is over and its pushes were delivered: one socket got the
\* optimized push, the other one is in the room now and got none of them
C35_Witness ==
  \E c, d \in Conns :
    /\ sub[1].pc = "done" /\ sub[1].returned
    /\ Lifecycle(conn[c].frames)
         = <<[name |-> "route_optimized", requestId |-> ReqId(1)]>>
    /\ <<"route", ReqId(1)>> \in conn[d].rooms
    /\ Lifecycle(conn[d].frames) = <<>>

\* C40: a connection receives pushed frames only for requests submitted by the
\* user it authenticated as.
C40_OnlyOwnNotifications ==
  \A c \in Conns :
    \A i \in DOMAIN conn[c].frames :
      conn[c].frames[i].name \in PushNames =>
        /\ conn[c].frames[i].requestId \in DOMAIN requests
        /\ requests[conn[c].frames[i].requestId].userId = conn[c].userId

\* C36: in the step in which submit returns its result the request of the
\* returned requestId is stored with status COMPLETED and the one stored route
\* of that request carries the route of the returned result.
C36_ReturnedResultIsStored ==
  [][\A p \in Procs :
       (~sub[p].returned /\ sub'[p].returned) =>
         /\ sub'[p].result.requestId \in DOMAIN requests'
         /\ requests'[sub'[p].result.requestId].status = "COMPLETED"
         /\ \E r \in routes' :
              /\ {x \in routes' : x.requestId = sub'[p].result.requestId} = {r}
              /\ r.waypoints = sub'[p].result.waypoints
              /\ r.vehicleId = requests'[sub'[p].result.requestId].vehicleId
    ]_vars

\* the second submission has returned its result while the first one is still
\* waiting for the sequencer
C36_Witness ==
  /\ NumSubmits >= 2
  /\ sub[2].returned /\ sub[2].result = [requestId |-> ReqId(2), waypoints |-> WaypointsOf(2)]
  /\ requests[ReqId(2)].status = "COMPLETED"
  /\ sub[1].pc = "sequencing"

\* C37: whenever the ROUTE_OPTIMIZED event of a request is on the bus, the
\* ROUTE_OPTIMIZATION_REQUESTED event of the same request is on the bus before it.
C37_RequestedBeforeOptimized ==
  \A k \in ReqIds :
    \A i \in DOMAIN bus[k] :
      bus[k][i] = "ROUTE_OPTIMIZED" =>
        \E j \in 1..(i - 1) : bus[k][j] = "ROUTE_OPTIMIZATION_REQUESTED"

\* C38: when the create of the request record failed, no request, route or route
\* update exists for the id, the sequencer was not called, no event of the id was
\* published and no room push was made for it.
C38_FailedCreateLeavesNothing ==
  \A p \in Procs :
    sub[p].err = "create" =>
      /\ ~Persisted(p) /\ hist[ReqId(p)] = <<>>
      /\ RoutesOf(ReqId(p)) = {}
      /\ \A x \in updates : x.routeId # RouteId(p)
      /\ ~SequencerCalled(p)
      /\ \A e \in inflight \cup rejected : e[2] # ReqId(p)
      /\ bus[ReqId(p)] = <<>>
      /\ pushes[ReqId(p)] = <<>>

\* the first submission's create failed and its call has ended with an error,
\* while the second submission was stored
C38_Witness ==
  /\ NumSubmits >= 2
  /\ sub[1].pc = "done" /\ sub[1].err = "create" /\ sub[1].raised # "none"
  /\ ~Persisted(1) /\ Persisted(2)

\* C39: every stored route references a stored request and carries its
\* vehicleId, no two routes reference the same request, and every route update
\* references a stored route and carries its vehicleId.
C39_ReferentialIntegrity ==
  /\ \A r \in routes :
       /\ r.requestId \in DOMAIN requests
       /\ r.vehicleId = requests[r.requestId].vehicleId
       /\ \A x \in routes : x.requestId = r.requestId => x = r
  /\ \A x \in updates :
       \E r \in routes : r.id = x.routeId /\ r.vehicleId = x.vehicleId

\* two routes of two requests for different vehicles are stored, and an update
\* of one of them
C39_Witness ==
  \E r, q \in routes :
    /\ r.requestId # q.requestId /\ r.vehicleId # q.vehicleId
    /\ \E x \in updates : x.routeId = r.id

====
